---- MODULE Spec2Model ----
(***************************************************************************)
(* VRPTW solver agent: the solve_vrptw handler (Agents/AG_vrptw_solver.py) *)
(* over one user's ORContext (Agents/shared_context.py), the MTZ model     *)
(* built by solve_vrptw_mtz (Agents/vrptw_solver.py) and the admission     *)
(* checks of Agents/guardrails.py.                                         *)
(*                                                                         *)
(* The MIP solver (PuLP + CBC) is the environment.  Under Spec it keeps    *)
(* its contract: a success status comes with an assignment that satisfies  *)
(* every constraint the model builder added.  Under SpecAny it may return  *)
(* any status with any 0/1 arc values.  SpecModel is solve_vrptw_mtz on    *)
(* its own, with any values of the arc variables.  SpecManager is          *)
(* ORContextManager called from two threads; SpecSessions and SpecCreate   *)
(* are two chat sessions calling the tools over the contexts it hands out. *)
(*                                                                         *)
(* Numbers are integers: costs, times, demands and loads of the instances  *)
(* drawn here are integral, and the continuous variables t, u and load     *)
(* range over the integer points of their bounds.                          *)
(***************************************************************************)
EXTENDS Integers, Sequences, FiniteSets, TLC

\* ---------------------------------------------------------------- bounds
MaxVertices == 3
MaxIters == 5
MaxHistory == 3
MaxCalls == 4

\* ------------------------------------------------------ program constants
SolverTimeLimit == 300
DefaultTimeLimit == 300
MAX_SOLVE_TIME == 600
MAX_VARIABLES == 50000
MAX_CONSTRAINTS == 100000

VARIABLES
    instance_json,   \* the instance the caller of this session supplies
    ctx_instance,    \* ORContext._current_instance: <<>> (None) or <<instance>>
    ctx_solution,    \* ORContext._current_solution: <<>> (None) or <<solution>>
    ctx_history,     \* ORContext._history: the events' types
    pc,              \* position of solve_vrptw: idle, outer, walk, store
    result,          \* what the last solve_vrptw call returned
    reported,        \* the validation errors listed in what it returned
    time_limit,      \* solve_vrptw's time_limit after admission control
    solver_calls,    \* solver invocations made by the current call
    solver_limit,    \* timeLimit handed to the solver by the last invocation
    status,          \* LpStatus[status] of the last invocation
    x, t,            \* value(x[i, j]), value(t[i]) of the last invocation
    total_cost,      \* value(lp_model.objective)
    routes, schedules, visited, route, schedule, current, j,
    iters,           \* iterations of the while loop made for the current route
    extracted_from   \* history variable: the <<x, t>> the stored solution came from

\* ORContextManager and the threads that call it
VARIABLES
    contexts,        \* ORContextManager._contexts: user_id -> context object
    heap,            \* the ORContext objects created so far, by object number
    lock,            \* ORContextManager._lock: <<>> (free) or <<thread>>
    current_user,    \* _current_user_id.value of each thread: <<>> (not set) or <<id>>
    chatting,        \* the threads whose chat session has started
    tpc,             \* position of each thread in its call
    tcall,           \* the call each thread is making: [op, user_id]
    tctx,            \* the context object get_context returned to each thread
    active_users,    \* what get_active_users returned to each thread
    calls,           \* calls started so far
    answer,          \* what the last handler of each thread returned, as the
                     \* sequence of the parts of the string
    got              \* history variable: <<user_id, object>> of each thread's last
                     \* get_context, <<>> once that user's context was cleared

\* solve_vrptw_mtz on its own
VARIABLES
    lp               \* <<>>, or the model built: its instance, its big-M and the
                     \* values the solver gives the arc variables

solver_vars == <<instance_json, ctx_instance, ctx_solution, ctx_history, pc, result,
                 reported, time_limit, solver_calls, solver_limit, status, x, t,
                 total_cost, routes, schedules, visited, route, schedule, current,
                 j, iters, extracted_from>>

manager_vars == <<contexts, heap, lock, current_user, chatting, tpc, tcall, tctx,
                  active_users, calls, answer, got>>

builder_vars == <<lp>>

vars == <<solver_vars, manager_vars, builder_vars>>

\* ----------------------------------------------------------- python values
\* A python list is a sequence; list[i] is 0-based.
At(list, i) == list[i + 1]

Vertices(n) == 0..(n - 1)
Customers(n) == 1..(n - 1)
Arcs(n) == {a \in Vertices(n) \X Vertices(n) : a[1] # a[2]}

RECURSIVE SumOver(_, _)
SumOver(f, S) ==
    IF S = {} THEN 0
    ELSE LET e == CHOOSE e \in S : TRUE IN f[e] + SumOver(f, S \ {e})

RECURSIVE SumSeq(_)
SumSeq(s) == IF s = <<>> THEN 0 ELSE Head(s) + SumSeq(Tail(s))

MaxOf(S) == CHOOSE m \in S : \A e \in S : e <= m
MinOf(S) == CHOOSE m \in S : \A e \in S : m <= e

\* -------------------------------------------------------------- instances
\* The layout generate_vrp_instance gives an instance.
MkInstance(n, K, Q, dem, depot_tw, cust_tw, svc, cost) ==
    [n_vertices |-> n,
     n_customers |-> n - 1,
     n_vehicles |-> K,
     vehicle_capacity |-> Q,
     coordinates |-> [i \in 1..n |-> <<i - 1, 0>>],
     cost_matrix |-> [i \in 1..n |-> [k \in 1..n |-> cost[i - 1, k - 1]]],
     time_windows |-> [i \in 1..n |-> IF i = 1 THEN depot_tw ELSE cust_tw[i - 1]],
     service_times |-> [i \in 1..n |-> IF i = 1 THEN 0 ELSE svc],
     demands |-> [i \in 1..n |-> IF i = 1 THEN 0 ELSE dem[i - 1]]]

Horizon(n) == n

\* Customer time windows: all wide, one slot per customer, or one malformed.
WindowProfiles(n) ==
    { [v \in Customers(n) |-> <<0, Horizon(n)>>],
      [v \in Customers(n) |-> <<v, v + 1>>],
      [v \in Customers(n) |-> IF v = 1 THEN <<2, 1>> ELSE <<0, Horizon(n)>>] }

DepotWindows(n) == { <<0, Horizon(n)>>, <<1, Horizon(n)>> }

\* Travel costs need not be symmetric; the diagonal is 0.
CostMatrices(n) ==
    { [a \in Vertices(n) \X Vertices(n) |->
          IF a[1] = a[2] THEN 0 ELSE IF a[1] < a[2] THEN 1 ELSE 2] }

Fleets == {1, 2}
Capacities == {3}
DemandValues == {1, 2}
ServiceTimes == {1}

Instances ==
    UNION { { MkInstance(n, K, Q, dem, dtw, ctw, svc, cost) :
                K \in Fleets, Q \in Capacities,
                dem \in [Customers(n) -> DemandValues],
                dtw \in DepotWindows(n), ctw \in WindowProfiles(n),
                svc \in ServiceTimes, cost \in CostMatrices(n) } :
            n \in 2..MaxVertices }

\* Instances whose time windows are single points, one per vertex.
PointInstances ==
    UNION { { MkInstance(n, K, Q, [v \in Customers(n) |-> 1], <<0, 0>>,
                         [v \in Customers(n) |-> <<v, v>>], svc, cost) :
                K \in {1}, Q \in Capacities, svc \in ServiceTimes,
                cost \in CostMatrices(n) } :
            n \in 2..MaxVertices }

TimeLimits == {0, 60, 601}

\* ------------------------------------------------------------- guardrails
\* InstanceParameterGuardrail.validate_instance_data: the errors it collects,
\* each with the length or the index its message gives.
InstanceErrors(inst) ==
    LET n == inst.n_vertices IN
    (IF Len(inst.coordinates) # n
     THEN {<<"coordinates", Len(inst.coordinates)>>} ELSE {})
    \cup (IF Len(inst.cost_matrix) # n
          THEN {<<"cost_matrix", Len(inst.cost_matrix)>>} ELSE {})
    \cup (IF Len(inst.time_windows) # n
          THEN {<<"time_windows", Len(inst.time_windows)>>} ELSE {})
    \cup (IF Len(inst.demands) # n
          THEN {<<"demands", Len(inst.demands)>>} ELSE {})
    \cup { <<"time_window", i - 1>> :
             i \in {i \in 1..Len(inst.time_windows) :
                       \/ Len(inst.time_windows[i]) # 2
                       \/ inst.time_windows[i][1] > inst.time_windows[i][2]} }

\* SolverGuardrail.estimate_complexity
EstimateComplexity(inst) ==
    LET n == inst.n_vertices IN
    [n_vertices |-> n,
     n_binary_vars |-> n * (n - 1),
     n_continuous_vars |-> 3 * n,
     n_total_vars |-> n * (n - 1) + 3 * n,
     n_constraints |-> 2 * (n - 1) + 3 + n * (n - 1) + (n - 1) * (n - 2)
                       + n * (n - 1) + 1]

\* (mutant) the messages give the ceilings instead of the counts
SizeErrors_Ceilings(complexity) ==
    (IF complexity.n_total_vars > MAX_VARIABLES
     THEN {<<"variables", MAX_VARIABLES>>} ELSE {})
    \cup (IF complexity.n_constraints > MAX_CONSTRAINTS
          THEN {<<"constraints", MAX_CONSTRAINTS>>} ELSE {})

\* "Instance too large: {count} variables" and "... {count} constraints"
SizeErrors(complexity) ==
    (IF complexity.n_total_vars > MAX_VARIABLES
     THEN {<<"variables", complexity.n_total_vars>>} ELSE {})
    \cup (IF complexity.n_constraints > MAX_CONSTRAINTS
          THEN {<<"constraints", complexity.n_constraints>>} ELSE {})

\* get_model_statistics: the counts it lists by family
ModelStatistics(n) ==
    [n_binary_vars |-> n * (n - 1),
     n_continuous_vars |-> 3 * n,
     n_visit_constraints |-> 2 * (n - 1),
     n_depot_constraints |-> 3,
     n_time_constraints |-> n * (n - 1),
     n_mtz_constraints |-> (n - 1) * (n - 2),
     n_load_constraints |-> n * (n - 1) + 1]

\* SolverGuardrail.validate_solve_request: is_valid, errors (each with the number
\* its message gives) and corrected_values.
ValidateSolveRequest(inst, tl) ==
    LET complexity == EstimateComplexity(inst)
        too_long == tl > MAX_SOLVE_TIME
        too_short == ~too_long /\ tl < 1
        errors ==
            (IF too_long \/ too_short THEN {<<"time_limit", tl>>} ELSE {})
            \cup SizeErrors(complexity)
    IN [is_valid |-> errors = {},
        errors |-> errors,
        corrected |-> IF too_long THEN <<MAX_SOLVE_TIME>>
                      ELSE IF too_short THEN <<1>> ELSE <<>>]

\* The smallest sizes whose estimate passes the constraint ceiling and the
\* variable ceiling.
OverConstraints ==
    CHOOSE n \in 2..MAX_VARIABLES :
        /\ EstimateComplexity([n_vertices |-> n]).n_constraints > MAX_CONSTRAINTS
        /\ EstimateComplexity([n_vertices |-> n - 1]).n_constraints <= MAX_CONSTRAINTS
OverVariables ==
    CHOOSE n \in 2..MAX_VARIABLES :
        /\ EstimateComplexity([n_vertices |-> n]).n_total_vars > MAX_VARIABLES
        /\ EstimateComplexity([n_vertices |-> n - 1]).n_total_vars <= MAX_VARIABLES

\* Well-formed instances of those sizes.
LargeInstances ==
    UNION { { MkInstance(n, 1, 3, [v \in Customers(n) |-> 1], <<0, Horizon(n)>>,
                         [v \in Customers(n) |-> <<0, Horizon(n)>>], 1, cost) :
                cost \in CostMatrices(n) } :
            n \in {OverConstraints, OverVariables} }

\* Instances on another scale, and instances whose clock starts before 0.
ScaledInstances ==
    { MkInstance(3, 1, 30, [v \in Customers(3) |-> 10], <<0, 40>>,
                 [v \in Customers(3) |-> <<10 * v, 10 * v + 20>>], 5,
                 [a \in Vertices(3) \X Vertices(3) |->
                     IF a[1] = a[2] THEN 0 ELSE 10]) }
ShiftedInstances ==
    { MkInstance(3, 1, 3, [v \in Customers(3) |-> 1], <<0 - 10, 0>>,
                 [v \in Customers(3) |-> IF v = 1 THEN <<0 - 8, 0 - 8>>
                                         ELSE <<0 - 2, 0>>], 1, cost) :
        cost \in CostMatrices(3) }

\* One depot and three customers on a line of the unit grid, at the places
\* pos; travel costs are the distances, one vehicle of capacity 10, demands 3,
\* and one window for all, as wide as the longest visiting order takes to
\* reach its last customer (twice the length of the line and two services).
TourLayouts == { <<0, 1, 2, 3>> }
TourInstances ==
    { [MkInstance(4, 1, 10, [v \in Customers(4) |-> 3],
                  <<0, 2 * 3 + 2 * svc>>,
                  [v \in Customers(4) |-> <<0, 2 * 3 + 2 * svc>>], svc,
                  [a \in Vertices(4) \X Vertices(4) |->
                      IF pos[a[1] + 1] >= pos[a[2] + 1]
                      THEN pos[a[1] + 1] - pos[a[2] + 1]
                      ELSE pos[a[2] + 1] - pos[a[1] + 1]])
         EXCEPT !.coordinates = [i \in 1..4 |-> <<pos[i], 0>>]] :
        pos \in TourLayouts, svc \in ServiceTimes }

\* Instances json.loads can hand over with one field of the wrong size: a
\* two-vertex instance with one array cut short or extended by one entry.
MalformedInstances ==
    LET base == MkInstance(2, 1, 3, [v \in Customers(2) |-> 1], <<0, Horizon(2)>>,
                           [v \in Customers(2) |-> <<0, Horizon(2)>>], 1,
                           CHOOSE cost \in CostMatrices(2) : TRUE)
    IN { [base EXCEPT !.coordinates = Append(@, <<2, 0>>)],
         [base EXCEPT !.time_windows = SubSeq(@, 1, 1)],
         [base EXCEPT !.demands = SubSeq(@, 1, 1)],
         [base EXCEPT !.cost_matrix = SubSeq(@, 1, 1)],
         [base EXCEPT !.service_times = Append(@, 1)],
         [base EXCEPT !.cost_matrix = [i \in 1..2 |-> Append(@[i], 1)]] }

\* ------------------------------------------------ the MTZ model (builder)
\* value > 0.5 on an arc variable
Selected(v) == 2 * v > 1

Cost(inst, i, k) == At(At(inst.cost_matrix, i), k)
Earliest(inst, i) == At(inst.time_windows, i)[1]
Latest(inst, i) == At(inst.time_windows, i)[2]
Service(inst, i) == At(inst.service_times, i)
Demand(inst, i) == At(inst.demands, i)

\* Big-M for the time constraints
BigM(inst) ==
    LET n == inst.n_vertices IN
    MaxOf({Latest(inst, i) : i \in Vertices(n)})
    + MaxOf({Cost(inst, i, k) : i \in Vertices(n), k \in Vertices(n)})
    + MaxOf({inst.service_times[i] : i \in 1..Len(inst.service_times)})

\* The keys of the variable dictionaries t, u and load (those of x are Arcs).
TimeKeys(n) == Vertices(n)
\* (mutant) u is created for the customers only
PositionKeys_Customers(n) == Customers(n)
PositionKeys(n) == Vertices(n)
LoadKeys(n) == Vertices(n)

\* The index pairs of the constraints time_i_j, mtz_i_j and load_i_j.
TimeNames(n) == {a \in Vertices(n) \X Customers(n) : a[1] # a[2]}
MtzNames(n) == {a \in Customers(n) \X Customers(n) : a[1] # a[2]}
LoadNames(n) == {a \in Vertices(n) \X Customers(n) : a[1] # a[2]}

\* Variable domains: x binary, t in its time window, u in [0, n], load in [0, Q].
ArcAssignments(n) == [Arcs(n) -> {0, 1}]
TimeAssignments(inst) ==
    {ts \in [TimeKeys(inst.n_vertices) ->
                0..MaxOf({Latest(inst, i) : i \in Vertices(inst.n_vertices)})] :
        \A i \in Vertices(inst.n_vertices) :
            Earliest(inst, i) <= ts[i] /\ ts[i] <= Latest(inst, i)}
PositionAssignments(inst) == [PositionKeys(inst.n_vertices) -> 0..inst.n_vertices]
LoadAssignments(inst) == [LoadKeys(inst.n_vertices) -> 0..inst.vehicle_capacity]

\* (mutant) the costs are left out of the objective
Objective_ArcCount(inst, xs) ==
    SumOver([a \in Arcs(inst.n_vertices) |-> xs[a]], Arcs(inst.n_vertices))

\* objective: sum of c[i][j] * x[i, j]
Objective(inst, xs) ==
    SumOver([a \in Arcs(inst.n_vertices) |-> Cost(inst, a[1], a[2]) * xs[a]],
            Arcs(inst.n_vertices))

InDegree(n, xs, k) == SumOver([i \in Vertices(n) \ {k} |-> xs[<<i, k>>]], Vertices(n) \ {k})
OutDegree(n, xs, i) == SumOver([k \in Vertices(n) \ {i} |-> xs[<<i, k>>]], Vertices(n) \ {i})

\* (mutant) only the visit_in constraints are added
VisitOnce_InOnly(n, xs) ==
    \A k \in Customers(n) : InDegree(n, xs, k) = 1

\* 1., 2. each customer is entered once and left once
VisitOnce(n, xs) ==
    /\ \A k \in Customers(n) : InDegree(n, xs, k) = 1
    /\ \A i \in Customers(n) : OutDegree(n, xs, i) = 1

\* (mutant) only depot_balance is added
DepotFlow_BalanceOnly(inst, xs) ==
    OutDegree(inst.n_vertices, xs, 0) = InDegree(inst.n_vertices, xs, 0)

\* 3. depot_out, depot_in, depot_balance
DepotFlow(inst, xs) ==
    /\ OutDegree(inst.n_vertices, xs, 0) <= inst.n_vehicles
    /\ InDegree(inst.n_vertices, xs, 0) <= inst.n_vehicles
    /\ OutDegree(inst.n_vertices, xs, 0) = InDegree(inst.n_vertices, xs, 0)

\* (mutant) time_i_j is added for customers i only, not for the depot
TimePropagation_CustomersOnly(inst, xs, ts) ==
    \A i \in Customers(inst.n_vertices), k \in Customers(inst.n_vertices) :
        i # k =>
            ts[k] >= ts[i] + Service(inst, i) + Cost(inst, i, k)
                     - BigM(inst) * (1 - xs[<<i, k>>])

\* The constraint time_i_j, for the arc a = <<i, j>>, with big-M bigM
TimeConstraint(inst, bigM, a, xs, ts) ==
    ts[a[2]] >= ts[a[1]] + Service(inst, a[1]) + Cost(inst, a[1], a[2])
                - bigM * (1 - xs[a])

\* 4. time_i_j for every i, every customer j # i
TimePropagation(inst, xs, ts) ==
    \A a \in TimeNames(inst.n_vertices) :
        TimeConstraint(inst, BigM(inst), a, xs, ts)

\* (mutant) the right-hand side is n
SubtourElimination_Loose(inst, xs, us) ==
    \A a \in MtzNames(inst.n_vertices) :
        us[a[1]] - us[a[2]] + inst.n_vertices * xs[a] <= inst.n_vertices

\* 5. mtz_i_j for every ordered pair of customers
SubtourElimination(inst, xs, us) ==
    \A a \in MtzNames(inst.n_vertices) :
        us[a[1]] - us[a[2]] + inst.n_vertices * xs[a] <= inst.n_vertices - 1

\* (mutant) only load_depot is added
CapacityPropagation_DepotOnly(inst, xs, ls) ==
    ls[0] = 0

\* 6. load_depot and load_i_j for every i, every customer j # i
CapacityPropagation(inst, xs, ls) ==
    /\ ls[0] = 0
    /\ \A a \in LoadNames(inst.n_vertices) :
          LET i == a[1]
              k == a[2]
          IN ls[k] >= ls[i] + Demand(inst, k)
                      - inst.vehicle_capacity * (1 - xs[<<i, k>>])

\* len(model.constraints) by family, and the numbers of variables created.
BuiltConstraints(n) ==
    [visit |-> Cardinality(Customers(n)) + Cardinality(Customers(n)),
     depot |-> Cardinality({"depot_out", "depot_in", "depot_balance"}),
     time |-> Cardinality(TimeNames(n)),
     mtz |-> Cardinality(MtzNames(n)),
     load |-> Cardinality({"load_depot"}) + Cardinality(LoadNames(n))]
BuiltVariables(n) ==
    [arc |-> Cardinality(Arcs(n)),
     time |-> Cardinality(TimeKeys(n)),
     position |-> Cardinality(PositionKeys(n)),
     load |-> Cardinality(LoadKeys(n))]

\* xs extends, with some u and some load, to an assignment that satisfies the
\* constraints on the arcs, the positions and the loads.
ArcsFeasible(inst, xs) ==
    /\ VisitOnce(inst.n_vertices, xs)
    /\ DepotFlow(inst, xs)
    /\ \E us \in PositionAssignments(inst) : SubtourElimination(inst, xs, us)
    /\ \E ls \in LoadAssignments(inst) : CapacityPropagation(inst, xs, ls)

\* xs, ts extend to an assignment that satisfies every constraint of the model.
SatisfiesModel(inst, xs, ts) ==
    /\ ArcsFeasible(inst, xs)
    /\ TimePropagation(inst, xs, ts)

\* The arc assignments that satisfy the visit constraints, for each size.
VisitOnceArcs ==
    [n \in 2..MaxOf({MaxVertices, 4}) |->
        {xs \in ArcAssignments(n) : VisitOnce(n, xs)}]

\* Every <<x, t>> that satisfies the model built for inst.
FeasibleAssignments(inst) ==
    UNION { { <<xs, ts>> : ts \in {ts \in TimeAssignments(inst) :
                                      TimePropagation(inst, xs, ts)} } :
            xs \in {xs \in VisitOnceArcs[inst.n_vertices] : ArcsFeasible(inst, xs)} }

\* The instances the model is built for: those the instance validation lets
\* through (and the instances with an inverted window, for which the table is
\* empty).
BuiltInstances ==
    Instances \cup TourInstances
    \cup {inst \in MalformedInstances : InstanceErrors(inst) = {}}

FeasibleTable == [inst \in BuiltInstances |-> FeasibleAssignments(inst)]

\* solve_vrptw_mtz(instance) up to model.solve: M is computed and the
\* variables and constraints are created.
BuildModel ==
    /\ lp = <<>>
    /\ lp' = [instance |-> instance_json, M |-> BigM(instance_json), x |-> <<>>]
    /\ UNCHANGED <<solver_vars, manager_vars>>

\* model.solve tries values for the arc variables.
TryArcs ==
    /\ lp # <<>>
    /\ lp.x = <<>>
    /\ \E xs \in ArcAssignments(lp.instance.n_vertices) : lp' = [lp EXCEPT !.x = xs]
    /\ UNCHANGED <<solver_vars, manager_vars>>

\* ------------------------------------------------------------- the solver
NoValues == <<>>
Success == {"Optimal", "Feasible"}
Failure == {"Infeasible", "Unbounded", "Not Solved", "Undefined"}

\* model.solve is not called
NoOutcome == [status |-> "none", x |-> NoValues, t |-> NoValues]

\* model.solve(PULP_CBC_CMD(...)) keeping its contract: a success status with an
\* assignment that satisfies the model, Infeasible when there is none, or the
\* time limit reached with nothing found.
SolverOutcomes(inst) ==
    LET F == FeasibleTable[inst] IN
    { [status |-> "Optimal", x |-> a[1], t |-> a[2]] : a \in F }
    \cup (IF F = {} THEN {[status |-> "Infeasible", x |-> NoValues, t |-> NoValues]}
          ELSE {})
    \cup {[status |-> "Not Solved", x |-> NoValues, t |-> NoValues]}

\* A solver that does not keep its contract: any status, any 0/1 arc values, any
\* arrival times inside the time windows.
AnyOutcomes(inst) ==
    { [status |-> st, x |-> xs, t |-> ts] :
        st \in Success, xs \in ArcAssignments(inst.n_vertices),
        ts \in TimeAssignments(inst) }
    \cup { [status |-> st, x |-> NoValues, t |-> NoValues] : st \in Failure }

\* ------------------------------------------------------------ solve_vrptw
\* (mutant) only Infeasible counts as a failure
IsSuccess_Lenient(status_str) == status_str # "Infeasible"

\* status_str in ["Optimal", "Feasible"]
IsSuccess(status_str) == status_str \in {"Optimal", "Feasible"}

\* value(lp_model.objective): None when the variables have no values
ObjectiveValue(inst, xs) ==
    IF xs = NoValues THEN NoValues ELSE Objective(inst, xs)

\* timeLimit of PULP_CBC_CMD in solve_vrptw_mtz
HandedTimeLimit(tl) == SolverTimeLimit

\* (mutant) the routes list is shared with the stored solution
InitialRoutes_Shared ==
    IF ctx_solution = <<>> THEN <<>> ELSE ctx_solution[1].routes

\* routes = [], schedules = [], visited = set()
InitialRoutes == <<>>
InitialSchedules == <<>>
InitialVisited == {}

\* value(t[j]) if value(t[j]) else 0
ArrivalOrZero(v) == IF v # 0 THEN v ELSE 0

\* schedule.append(0) when the route returns to the depot
DepotSchedule == 0

\* (mutant) the route is left open
CloseRoute_Open(r) == r

\* route.append(0) when the arc followed leads to the depot
CloseRoute(r) == Append(r, 0)

\* (mutant) the scan runs from the highest index down
NextVertex_Highest(xs, n, cur) ==
    LET S == {v \in Vertices(n) : v # cur /\ Selected(xs[<<cur, v>>])}
    IN IF S = {} THEN -1 ELSE MaxOf(S)

\* for next_v in range(n): the first next_v # cur whose arc from cur has value > 0.5
NextVertex(xs, n, cur) ==
    LET S == {v \in Vertices(n) : v # cur /\ Selected(xs[<<cur, v>>])}
    IN IF S = {} THEN -1 ELSE MinOf(S)

\* route_cost and route_demand of the solution report
RouteCost(inst, r) ==
    SumSeq([k \in 1..(Len(r) - 1) |-> Cost(inst, r[k], r[k + 1])])
RouteDemand(inst, r) ==
    SumSeq([k \in 1..(Len(r) - 2) |-> Demand(inst, r[k + 1])])

\* The two loops of the extraction run to their end, for arc values on which
\* they end: the while loop from the last stop of r, and the for loop from j.
\* rs holds the <<route, schedule>> pairs appended so far.
RECURSIVE WalkRoute(_, _, _, _, _)
WalkRoute(inst, xs, ts, r, seen) ==
    LET next_v == NextVertex(xs, inst.n_vertices, r[1][Len(r[1])]) IN
    IF next_v = 0
    THEN <<CloseRoute(r[1]), Append(r[2], DepotSchedule), seen>>
    ELSE IF next_v # -1 /\ next_v \notin seen
    THEN WalkRoute(inst, xs, ts,
                   <<Append(r[1], next_v), Append(r[2], ArrivalOrZero(ts[next_v]))>>,
                   seen \cup {next_v})
    ELSE WalkRoute(inst, xs, ts, r, seen)

RECURSIVE ExtractFrom(_, _, _, _, _, _)
ExtractFrom(inst, xs, ts, k, rs, seen) ==
    IF k >= inst.n_vertices THEN rs
    ELSE IF Selected(xs[<<0, k>>]) /\ k \notin seen
    THEN LET w == WalkRoute(inst, xs, ts, <<<<0, k>>, <<0, ArrivalOrZero(ts[k])>>>>,
                            seen \cup {k})
         IN ExtractFrom(inst, xs, ts, k + 1, Append(rs, <<w[1], w[2]>>), w[3])
    ELSE ExtractFrom(inst, xs, ts, k + 1, rs, seen)

\* The solution dictionary solve_vrptw stores for the solver outcome out.
SolutionOf(inst, out) ==
    LET rs == ExtractFrom(inst, out.x, out.t, 1, <<>>, InitialVisited) IN
    [status |-> out.status,
     total_cost |-> ObjectiveValue(inst, out.x),
     routes |-> [r \in 1..Len(rs) |-> rs[r][1]],
     schedules |-> [r \in 1..Len(rs) |-> rs[r][2]]]

ClearLocals ==
    /\ x' = NoValues /\ t' = NoValues /\ total_cost' = 0
    /\ routes' = <<>> /\ schedules' = <<>> /\ visited' = {}
    /\ route' = <<>> /\ schedule' = <<>> /\ current' = 0 /\ j' = 0 /\ iters' = 0

\* The instance a call works on: instance_json, or the context's when it is None.
RequestInstance(json) == IF json = <<>> THEN ctx_instance ELSE json

\* The call reaches solve_vrptw_mtz: an instance is there and both validations pass.
Admitted(json, tl) ==
    /\ RequestInstance(json) # <<>>
    /\ InstanceErrors(RequestInstance(json)[1]) = {}
    /\ ValidateSolveRequest(RequestInstance(json)[1], tl).is_valid

\* solve_vrptw(instance_json, time_limit) up to the first test of the outer
\* loop: json is <<>> for None, out is what model.solve returns when called.
SolveVrptw(json, tl, out) ==
    /\ pc = "idle"
    /\ Len(ctx_history) + (IF json = <<>> THEN 1 ELSE 2) <= MaxHistory
    /\ UNCHANGED <<instance_json, ctx_solution, extracted_from>>
    /\ UNCHANGED <<manager_vars, builder_vars>>
    /\ IF json = <<>> /\ ctx_instance = <<>>
       THEN /\ result' = "no_instance"
            /\ reported' = {}
            /\ pc' = "idle"
            /\ time_limit' = tl /\ solver_calls' = 0
            /\ UNCHANGED <<ctx_instance, ctx_history, solver_limit, status>>
            /\ ClearLocals
       ELSE LET inst == IF json = <<>> THEN ctx_instance[1] ELSE json[1]
                check == ValidateSolveRequest(inst, tl)
                limit == IF check.corrected # <<>> THEN check.corrected[1] ELSE tl
            IN
            \* ctx.set_instance(instance)
            /\ ctx_instance' = <<inst>>
            /\ ctx_history' = IF json = <<>> THEN ctx_history
                              ELSE Append(ctx_history, "instance_created")
            /\ IF InstanceErrors(inst) # {}
               THEN /\ result' = "invalid_instance"
                    /\ reported' = InstanceErrors(inst)
                    /\ pc' = "idle"
                    /\ time_limit' = tl /\ solver_calls' = 0
                    /\ UNCHANGED <<solver_limit, status>>
                    /\ ClearLocals
               ELSE IF ~check.is_valid
               THEN /\ result' = "cannot_solve"
                    /\ reported' = check.errors
                    /\ pc' = "idle"
                    /\ time_limit' = tl /\ solver_calls' = 0
                    /\ UNCHANGED <<solver_limit, status>>
                    /\ ClearLocals
               ELSE /\ time_limit' = limit
                    /\ reported' = {}
                    /\ solver_calls' = 1
                    /\ solver_limit' = HandedTimeLimit(limit)
                    /\ status' = out.status
                    /\ IF ~IsSuccess(out.status)
                       THEN /\ result' = "no_feasible"
                            /\ pc' = "idle"
                            /\ ClearLocals
                       ELSE /\ result' = "running"
                            /\ pc' = "outer"
                            /\ x' = out.x /\ t' = out.t
                            /\ total_cost' = ObjectiveValue(inst, out.x)
                            /\ routes' = InitialRoutes
                            /\ schedules' = InitialSchedules
                            /\ visited' = InitialVisited
                            /\ route' = <<>> /\ schedule' = <<>>
                            /\ current' = 0 /\ j' = 1 /\ iters' = 0

\* One test of "for j in range(1, n)": start a route at j, pass j, or leave the
\* loop.
OuterStep ==
    /\ pc = "outer"
    /\ UNCHANGED <<manager_vars, builder_vars>>
    /\ UNCHANGED <<instance_json, ctx_instance, ctx_solution, ctx_history, result,
                   reported, time_limit, solver_calls, solver_limit, status, x, t,
                   total_cost, routes, schedules, extracted_from>>
    /\ IF j >= ctx_instance[1].n_vertices
       THEN /\ pc' = "store"
            /\ UNCHANGED <<visited, route, schedule, current, j, iters>>
       ELSE IF Selected(x[<<0, j>>]) /\ j \notin visited
       THEN /\ route' = <<0, j>>
            /\ schedule' = <<0, ArrivalOrZero(t[j])>>
            /\ visited' = visited \cup {j}
            /\ current' = j
            /\ iters' = 0
            /\ pc' = "walk"
            /\ UNCHANGED j
       ELSE /\ j' = j + 1
            /\ UNCHANGED <<pc, visited, route, schedule, current, iters>>

\* One iteration of "while current != 0"; when the route reaches the depot the
\* loop ends and the route and its schedule are appended.
WalkStep ==
    /\ pc = "walk"
    /\ UNCHANGED <<manager_vars, builder_vars>>
    /\ UNCHANGED <<instance_json, ctx_instance, ctx_solution, ctx_history, result,
                   reported, time_limit, solver_calls, solver_limit, status, x, t,
                   total_cost, extracted_from>>
    /\ iters' = IF iters < MaxIters THEN iters + 1 ELSE iters
    /\ LET next_v == NextVertex(x, ctx_instance[1].n_vertices, current) IN
       IF next_v = 0
       THEN /\ routes' = Append(routes, CloseRoute(route))
            /\ schedules' = Append(schedules, Append(schedule, DepotSchedule))
            /\ route' = CloseRoute(route)
            /\ schedule' = Append(schedule, DepotSchedule)
            /\ current' = 0
            /\ j' = j + 1
            /\ pc' = "outer"
            /\ UNCHANGED visited
       ELSE IF next_v # -1 /\ next_v \notin visited
       THEN /\ route' = Append(route, next_v)
            /\ schedule' = Append(schedule, ArrivalOrZero(t[next_v]))
            /\ visited' = visited \cup {next_v}
            /\ current' = next_v
            /\ UNCHANGED <<routes, schedules, j, pc>>
       ELSE UNCHANGED <<routes, schedules, visited, route, schedule, current, j, pc>>

\* ctx.set_solution(solution) and the report
StoreSolution ==
    /\ pc = "store"
    /\ UNCHANGED <<manager_vars, builder_vars>>
    /\ ctx_solution' = << [status |-> status, total_cost |-> total_cost,
                           routes |-> routes, schedules |-> schedules] >>
    /\ ctx_history' = Append(ctx_history, "solution_found")
    /\ extracted_from' = <<x, t>>
    /\ result' = "report"
    /\ reported' = {}
    /\ pc' = "idle"
    /\ ClearLocals
    /\ UNCHANGED <<instance_json, ctx_instance, time_limit, solver_calls,
                   solver_limit, status>>

\* ------------------------------------- ORContextManager and its callers
Threads == {1, 2}
Users == {"anonymous", "alice"}

\* validate_instance_params(n_customers=n_customers, seed=seed); corrected is
\* the dictionary of corrected values, empty where the code has None.
MIN_CUSTOMERS == 1
MAX_CUSTOMERS == 100
AbsSeed(seed) == IF seed < 0 THEN 0 - seed ELSE seed
ValidateInstanceParams(n_customers, seed) ==
    LET errors == IF n_customers < MIN_CUSTOMERS \/ n_customers > MAX_CUSTOMERS
                  THEN {<<"n_customers", n_customers>>} ELSE {}
        keys == (IF errors # {} THEN {"n_customers"} ELSE {})
                \cup (IF seed < 0 THEN {"seed"} ELSE {})
    IN [is_valid |-> errors = {},
        errors |-> errors,
        warnings |-> IF seed < 0 THEN {"negative_seed"} ELSE {},
        corrected |-> [k \in keys |->
                          IF k = "seed" THEN AbsSeed(seed)
                          ELSE IF n_customers < MIN_CUSTOMERS THEN MIN_CUSTOMERS
                          ELSE MAX_CUSTOMERS]]

\* generate_vrp_instance(n_customers, seed): np.random.seed raises ValueError
\* for a seed below 0; otherwise the seed fixes what is drawn, here the demands.
SeedAccepted(seed) == seed >= 0
GenerateVrpInstance(n_customers, seed) ==
    MkInstance(n_customers + 1, 1, 3,
               [v \in Customers(n_customers + 1) |-> 1 + (seed % 2)],
               <<0, Horizon(n_customers + 1)>>,
               [v \in Customers(n_customers + 1) |-> <<0, Horizon(n_customers + 1)>>],
               1, CHOOSE cost \in CostMatrices(n_customers + 1) : TRUE)

\* The instances create_vrp_instance generates for one customer, and the files
\* of the application's .files directory: a file name is the sequence of its
\* parts, and a file holds an instance.
Seeds == {1, 2}
GeneratedInstances == { GenerateVrpInstance(1, seed) : seed \in Seeds }
SavedInstance == CHOOSE inst \in GeneratedInstances : Demand(inst, 1) = 2
DefaultFile == <<"vrp_instance", ".json">>
ErrorFile == <<"Error", "_cases", ".json">>
BrokenFile == <<"broken", ".json">>
MissingFile == <<"missing", ".json">>
FileNames == {DefaultFile, ErrorFile, BrokenFile, MissingFile}
FileAt(path, filename) ==
    IF path # <<".files">> THEN <<>>
    ELSE IF filename = DefaultFile THEN <<SavedInstance>>
    ELSE IF filename = ErrorFile
    THEN <<CHOOSE inst \in GeneratedInstances : Demand(inst, 1) = 1>>
    ELSE IF filename = BrokenFile
    THEN <<CHOOSE inst \in MalformedInstances : Len(inst.time_windows) = 1>>
    ELSE <<>>

NoArgs == [n_customers |-> 0, seed |-> 0, filename |-> <<>>]

\* ORContext.__init__, clear, set_workspace, set_instance, set_solution and
\* load_instance, on the fields of a context object; solution_of is a history
\* field, the instance the solution stored was computed for.
NewContext(user_id) ==
    [user_id |-> user_id, instance |-> <<>>, solution |-> <<>>, history |-> <<>>,
     workspace |-> <<".files", user_id>>, solution_of |-> <<>>]
Cleared(c) ==
    [c EXCEPT !.instance = <<>>, !.solution = <<>>, !.history = <<>>,
              !.solution_of = <<>>]
SetWorkspace(c, path) == [c EXCEPT !.workspace = path]
SetInstance(c, inst) ==
    [c EXCEPT !.instance = <<inst>>, !.history = Append(@, "instance_created")]
SetSolution(c, sol) ==
    [c EXCEPT !.solution = <<sol>>, !.history = Append(@, "solution_found")]
LoadInstance(c, filename) ==
    IF FileAt(c.workspace, filename) = <<>> THEN c
    ELSE [c EXCEPT !.instance = FileAt(c.workspace, filename)]

\* What load_instance returns, as the sequence of the parts of the string.
LoadMessage(c, filename) ==
    IF FileAt(c.workspace, filename) = <<>>
    THEN <<"Error", ": File ">> \o c.workspace \o filename \o <<" not found.">>
    ELSE <<"Instance loaded from ">> \o c.workspace \o filename

\* "Error" in result
ContainsError(message) == \E k \in 1..Len(message) : message[k] = "Error"

\* get_current_user: the thread's user id, 'anonymous' when none was set
GetCurrentUser(th) ==
    IF current_user[th] = <<>> THEN "anonymous" ELSE current_user[th][1]

\* The calls that go through ORContextManager.get_context, and the handlers
\* among them, which call get_context() for the current user.
Handlers == {"on_chat_start", "create_vrp_instance", "load_vrp_instance",
             "solve_vrptw", "solve_vrptw_from_file"}
Getters == Handlers \cup {"get_context"}
ManagerCalls == {"get_context", "clear_context", "get_active_users", "cleanup_all"}

\* (mutant) the methods run without the lock
LockAvailable_Always == TRUE

\* with cls._lock: the lock can be taken
LockAvailable == lock = <<>>

\* A thread starts a call.
StartCall(th, op, user_id, args) ==
    /\ tpc[th] = "idle"
    /\ calls < MaxCalls
    /\ calls' = calls + 1
    /\ tcall' = [tcall EXCEPT ![th] = [op |-> op, user_id |-> user_id, args |-> args]]
    /\ tpc' = [tpc EXCEPT ![th] = "acquire"]
    /\ UNCHANGED <<contexts, heap, lock, current_user, chatting, tctx,
                   active_users, got>>
    /\ UNCHANGED answer
    /\ UNCHANGED <<solver_vars, builder_vars>>

\* The arguments the sessions call their tools with.
SessionArgs(op) ==
    IF op = "create_vrp_instance"
    THEN { [NoArgs EXCEPT !.n_customers = 1, !.seed = seed] : seed \in Seeds }
    ELSE IF op \in {"load_vrp_instance", "solve_vrptw_from_file"}
    THEN { [NoArgs EXCEPT !.filename = f] : f \in FileNames }
    ELSE {NoArgs}

\* A chat session starts, or a started one calls a tool.
SessionCall(th) ==
    \E op \in Handlers :
        /\ (op = "on_chat_start") = (th \notin chatting)
        /\ \E args \in SessionArgs(op) : StartCall(th, op, GetCurrentUser(th), args)

\* A session starts, or calls create_vrp_instance with any parameters.
CustomerCounts == {MIN_CUSTOMERS - 1, MIN_CUSTOMERS, MAX_CUSTOMERS + 1}
CreateCall(th) ==
    \E op \in {"on_chat_start", "create_vrp_instance"} :
        /\ (op = "on_chat_start") = (th \notin chatting)
        /\ \E n_customers \in CustomerCounts, seed \in {0 - 1, 1} :
              StartCall(th, op, GetCurrentUser(th),
                        IF op = "on_chat_start" THEN NoArgs
                        ELSE [NoArgs EXCEPT !.n_customers = n_customers,
                                            !.seed = seed])

\* A thread calls a method of ORContextManager.
ManagerCall(th) ==
    \E op \in ManagerCalls, user_id \in Users : StartCall(th, op, user_id, NoArgs)

\* with cls._lock: entering
Acquire(th) ==
    /\ tpc[th] = "acquire"
    /\ LockAvailable
    /\ lock' = <<th>>
    /\ tpc' = [tpc EXCEPT ![th] = "locked"]
    /\ UNCHANGED <<contexts, heap, current_user, chatting, tcall, tctx,
                   active_users, calls, got>>
    /\ UNCHANGED answer
    /\ UNCHANGED <<solver_vars, builder_vars>>

\* get_context: if user_id not in cls._contexts
Check(th) ==
    /\ tpc[th] = "locked"
    /\ tcall[th].op \in Getters
    /\ tpc' = [tpc EXCEPT ![th] = IF tcall[th].user_id \in DOMAIN contexts
                                  THEN "return" ELSE "create"]
    /\ UNCHANGED <<contexts, heap, lock, current_user, chatting, tcall, tctx,
                   active_users, calls, got>>
    /\ UNCHANGED answer
    /\ UNCHANGED <<solver_vars, builder_vars>>

\* get_context: cls._contexts[user_id] = ORContext(user_id, cls._base_workspace)
Create(th) ==
    /\ tpc[th] = "create"
    /\ heap' = Append(heap, NewContext(tcall[th].user_id))
    /\ contexts' = [u \in DOMAIN contexts \cup {tcall[th].user_id} |->
                       IF u = tcall[th].user_id THEN Len(heap) + 1 ELSE contexts[u]]
    /\ tpc' = [tpc EXCEPT ![th] = "return"]
    /\ UNCHANGED <<lock, current_user, chatting, tcall, tctx, active_users,
                   calls, got>>
    /\ UNCHANGED answer
    /\ UNCHANGED <<solver_vars, builder_vars>>

\* get_context: return cls._contexts[user_id], leaving the lock; a KeyError
\* ends the call when the entry is gone.
Return(th) ==
    /\ tpc[th] = "return"
    /\ lock' = <<>>
    /\ IF tcall[th].user_id \in DOMAIN contexts
       THEN /\ tctx' = [tctx EXCEPT ![th] = <<contexts[tcall[th].user_id]>>]
            /\ got' = [got EXCEPT ![th] =
                          <<tcall[th].user_id, contexts[tcall[th].user_id]>>]
            /\ tpc' = [tpc EXCEPT ![th] = IF tcall[th].op \in Handlers
                                          THEN "body" ELSE "idle"]
       ELSE /\ tctx' = [tctx EXCEPT ![th] = <<>>]
            /\ got' = [got EXCEPT ![th] = <<>>]
            /\ tpc' = [tpc EXCEPT ![th] = "idle"]
    /\ UNCHANGED <<contexts, heap, current_user, chatting, tcall, active_users,
                   calls>>
    /\ UNCHANGED answer
    /\ UNCHANGED <<solver_vars, builder_vars>>

\* ORContextManager.clear_context(user_id)
ClearContext(th) ==
    /\ tpc[th] = "locked"
    /\ tcall[th].op = "clear_context"
    /\ LET user_id == tcall[th].user_id IN
       IF user_id \in DOMAIN contexts
       THEN /\ heap' = [heap EXCEPT ![contexts[user_id]] = Cleared(@)]
            /\ contexts' = [u \in DOMAIN contexts \ {user_id} |-> contexts[u]]
            /\ got' = [o \in Threads |->
                          IF got[o] # <<>> /\ got[o][1] = user_id THEN <<>>
                          ELSE got[o]]
       ELSE UNCHANGED <<heap, contexts, got>>
    /\ lock' = <<>>
    /\ tpc' = [tpc EXCEPT ![th] = "idle"]
    /\ UNCHANGED <<current_user, chatting, tcall, tctx, active_users, calls>>
    /\ UNCHANGED answer
    /\ UNCHANGED <<solver_vars, builder_vars>>

\* ORContextManager.get_active_users()
GetActiveUsers(th) ==
    /\ tpc[th] = "locked"
    /\ tcall[th].op = "get_active_users"
    /\ active_users' = [active_users EXCEPT ![th] = DOMAIN contexts]
    /\ lock' = <<>>
    /\ tpc' = [tpc EXCEPT ![th] = "idle"]
    /\ UNCHANGED <<contexts, heap, current_user, chatting, tcall, tctx, calls, got>>
    /\ UNCHANGED answer
    /\ UNCHANGED <<solver_vars, builder_vars>>

\* ORContextManager.cleanup_all()
CleanupAll(th) ==
    /\ tpc[th] = "locked"
    /\ tcall[th].op = "cleanup_all"
    /\ heap' = [o \in 1..Len(heap) |->
                   IF \E u \in DOMAIN contexts : contexts[u] = o
                   THEN Cleared(heap[o]) ELSE heap[o]]
    /\ contexts' = <<>>
    /\ got' = [o \in Threads |-> <<>>]
    /\ lock' = <<>>
    /\ tpc' = [tpc EXCEPT ![th] = "idle"]
    /\ UNCHANGED <<current_user, chatting, tcall, tctx, active_users, calls>>
    /\ UNCHANGED answer
    /\ UNCHANGED <<solver_vars, builder_vars>>

\* What a handler does with the context it got.
EndBody(th) ==
    /\ tpc' = [tpc EXCEPT ![th] = "idle"]
    /\ UNCHANGED <<contexts, lock, current_user, tcall, tctx, active_users,
                   calls, got>>
    /\ UNCHANGED <<solver_vars, builder_vars>>

\* on_chat_start: ctx.set_workspace(workspace_path); ctx.clear()
OnChatStart(th) ==
    /\ tpc[th] = "body"
    /\ tcall[th].op = "on_chat_start"
    /\ heap' = [heap EXCEPT ![tctx[th][1]] = Cleared(SetWorkspace(@, <<".files">>))]
    /\ chatting' = chatting \cup {th}
    /\ answer' = [answer EXCEPT ![th] = <<"started">>]
    /\ EndBody(th)

\* create_vrp_instance(n_customers, seed): the corrected values are taken
\* when the validation failed, the instance is generated and stored.
CreateVrpInstance(th) ==
    /\ tpc[th] = "body"
    /\ tcall[th].op = "create_vrp_instance"
    /\ LET validation == ValidateInstanceParams(tcall[th].args.n_customers,
                                                tcall[th].args.seed)
           corrected == validation.corrected
           take == ~validation.is_valid /\ DOMAIN corrected # {}
           n_customers == IF take /\ "n_customers" \in DOMAIN corrected
                          THEN corrected["n_customers"]
                          ELSE tcall[th].args.n_customers
           seed == IF take /\ "seed" \in DOMAIN corrected
                   THEN corrected["seed"] ELSE tcall[th].args.seed
       IN IF ~validation.is_valid /\ DOMAIN corrected = {}
          THEN /\ answer' = [answer EXCEPT ![th] = <<"invalid_parameters">>]
               /\ UNCHANGED heap
          ELSE IF ~SeedAccepted(seed)
          THEN /\ answer' = [answer EXCEPT ![th] = <<"ValueError">>]
               /\ UNCHANGED heap
          ELSE /\ answer' = [answer EXCEPT ![th] = <<"instance">>]
               /\ heap' = [heap EXCEPT ![tctx[th][1]] =
                              SetInstance(@, GenerateVrpInstance(n_customers, seed))]
    /\ UNCHANGED chatting
    /\ EndBody(th)

\* load_vrp_instance(filename): ctx.load_instance(filename), then the
\* validation of what was loaded.
LoadVrpInstance(th) ==
    /\ tpc[th] = "body"
    /\ tcall[th].op = "load_vrp_instance"
    /\ LET c == heap[tctx[th][1]]
           loaded == LoadInstance(c, tcall[th].args.filename)
           message == LoadMessage(c, tcall[th].args.filename)
       IN /\ heap' = [heap EXCEPT ![tctx[th][1]] = loaded]
          /\ answer' = [answer EXCEPT ![th] =
                           IF ContainsError(message) THEN message
                           ELSE IF InstanceErrors(loaded.instance[1]) # {}
                           THEN <<"invalid_instance">> ELSE <<"instance">>]
    /\ UNCHANGED chatting
    /\ EndBody(th)

\* solve_vrptw(time_limit=tl) on the context c, from has_instance to
\* set_solution: the contexts and answers it can end with.
SolveResults(c, tl) ==
    IF c.instance = <<>> THEN {<<c, <<"no_instance">> >>}
    ELSE IF InstanceErrors(c.instance[1]) # {} THEN {<<c, <<"invalid_instance">> >>}
    ELSE IF ~ValidateSolveRequest(c.instance[1], tl).is_valid
    THEN {<<c, <<"cannot_solve">> >>}
    ELSE { IF IsSuccess(out.status)
           THEN << [SetSolution(c, SolutionOf(c.instance[1], out))
                       EXCEPT !.solution_of = c.instance], <<"report">> >>
           ELSE <<c, <<"no_feasible">> >> : out \in SolverOutcomes(c.instance[1]) }

\* solve_vrptw() with the default time limit
SolveInContext(th) ==
    /\ tpc[th] = "body"
    /\ tcall[th].op = "solve_vrptw"
    /\ \E r \in SolveResults(heap[tctx[th][1]], DefaultTimeLimit) :
          /\ heap' = [heap EXCEPT ![tctx[th][1]] = r[1]]
          /\ answer' = [answer EXCEPT ![th] = r[2]]
    /\ UNCHANGED chatting
    /\ EndBody(th)

\* solve_vrptw_from_file(filename): ctx.load_instance(filename), then
\* solve_vrptw(time_limit=time_limit)
SolveVrptwFromFile(th) ==
    /\ tpc[th] = "body"
    /\ tcall[th].op = "solve_vrptw_from_file"
    /\ LET c == heap[tctx[th][1]]
           loaded == LoadInstance(c, tcall[th].args.filename)
           message == LoadMessage(c, tcall[th].args.filename)
       IN IF ContainsError(message)
          THEN /\ heap' = [heap EXCEPT ![tctx[th][1]] = loaded]
               /\ answer' = [answer EXCEPT ![th] = message]
          ELSE \E r \in SolveResults(loaded, DefaultTimeLimit) :
                  /\ heap' = [heap EXCEPT ![tctx[th][1]] = r[1]]
                  /\ answer' = [answer EXCEPT ![th] = r[2]]
    /\ UNCHANGED chatting
    /\ EndBody(th)

\* ---------------------------------------------------------- specifications
\* solve_vrptw_mtz has not been called.
InitBuilder == lp = <<>>

\* No context exists, the lock is free, no thread has set its user id.
InitManager ==
    /\ contexts = <<>> /\ heap = <<>> /\ lock = <<>>
    /\ current_user = [th \in Threads |-> <<>>]
    /\ chatting = {}
    /\ tpc = [th \in Threads |-> "idle"]
    /\ tcall = [th \in Threads |-> [op |-> "none", user_id |-> "none", args |-> NoArgs]]
    /\ answer = [th \in Threads |-> <<>>]
    /\ tctx = [th \in Threads |-> <<>>]
    /\ active_users = [th \in Threads |-> {}]
    /\ calls = 0
    /\ got = [th \in Threads |-> <<>>]

\* ORContext.__init__: no instance, no solution, an empty history.
InitContext ==
    /\ ctx_instance = <<>> /\ ctx_solution = <<>> /\ ctx_history = <<>>
    /\ pc = "idle" /\ result = "none" /\ reported = {}
    /\ time_limit = 0 /\ solver_calls = 0 /\ solver_limit = 0 /\ status = "none"
    /\ x = NoValues /\ t = NoValues /\ total_cost = 0
    /\ routes = <<>> /\ schedules = <<>> /\ visited = {}
    /\ route = <<>> /\ schedule = <<>> /\ current = 0 /\ j = 0 /\ iters = 0
    /\ extracted_from = <<>>

\* The instances a caller supplies.
SuppliedInstances ==
    Instances \cup TourInstances \cup LargeInstances \cup MalformedInstances

Init ==
    /\ instance_json \in SuppliedInstances
    /\ InitContext
    /\ InitManager
    /\ InitBuilder

Request ==
    \E json \in {<<>>, <<instance_json>>}, tl \in TimeLimits :
        \E out \in (IF Admitted(json, tl)
                    THEN SolverOutcomes(RequestInstance(json)[1])
                    ELSE {NoOutcome}) :
            SolveVrptw(json, tl, out)

Next == Request \/ OuterStep \/ WalkStep \/ StoreSolution

Spec == Init /\ [][Next]_vars

\* The same program with a solver that does not keep its contract.
InitAny ==
    /\ instance_json \in PointInstances
    /\ InitContext
    /\ InitManager
    /\ InitBuilder

RequestAny ==
    \E json \in {<<>>, <<instance_json>>}, tl \in TimeLimits :
        \E out \in (IF Admitted(json, tl)
                    THEN AnyOutcomes(RequestInstance(json)[1])
                    ELSE {NoOutcome}) :
            SolveVrptw(json, tl, out)

NextAny == RequestAny \/ OuterStep \/ WalkStep \/ StoreSolution

SpecAny == InitAny /\ [][NextAny]_vars

\* The model builder on the instances that reach it.
ModelInstances ==
    {inst \in Instances : InstanceErrors(inst) = {}}
    \cup TourInstances \cup ScaledInstances \cup ShiftedInstances

InitModel ==
    /\ instance_json \in ModelInstances
    /\ InitContext
    /\ InitManager
    /\ InitBuilder

NextModel == BuildModel \/ TryArcs

SpecModel == InitModel /\ [][NextModel]_vars

\* Threads calling the methods of ORContextManager.
InitManagerCalls ==
    /\ instance_json = SavedInstance
    /\ InitContext
    /\ InitManager
    /\ InitBuilder

GetContext(th) == Acquire(th) \/ Check(th) \/ Create(th) \/ Return(th)

NextManager ==
    \E th \in Threads :
        \/ ManagerCall(th)
        \/ GetContext(th)
        \/ ClearContext(th)
        \/ GetActiveUsers(th)
        \/ CleanupAll(th)

SpecManager == InitManagerCalls /\ [][NextManager]_vars

\* Two chat sessions, each on a thread of its own.
NextSessions ==
    \E th \in Threads :
        \/ SessionCall(th)
        \/ GetContext(th)
        \/ OnChatStart(th)
        \/ CreateVrpInstance(th)
        \/ LoadVrpInstance(th)
        \/ SolveInContext(th)
        \/ SolveVrptwFromFile(th)

SpecSessions == InitManagerCalls /\ [][NextSessions]_vars

\* Two chat sessions creating instances.
NextCreate ==
    \E th \in Threads :
        \/ CreateCall(th)
        \/ GetContext(th)
        \/ OnChatStart(th)
        \/ CreateVrpInstance(th)

SpecCreate == InitManagerCalls /\ [][NextCreate]_vars

\* ------------------------------------------------------------------ claims
CurrentInstance == ctx_instance[1]
StoredSolution == ctx_solution[1]

\* The solver values in hand satisfy every constraint of the model built for
\* the instance being solved.
ValuesSatisfyModel == <<x, t>> \in FeasibleTable[CurrentInstance]

\* The positions <<r, k>> of a list of routes.
Stops(rs) == UNION { { <<r, k>> : k \in 1..Len(rs[r]) } : r \in 1..Len(rs) }
Occurrences(rs, v) == Cardinality({p \in Stops(rs) : rs[p[1]][p[2]] = v})

\* C1: when the extraction ends on an assignment that satisfies every
\* constraint of the model, each customer 1..n-1 occurs exactly once in the
\* routes, all routes taken together.
C1_Partition ==
    (pc = "store" /\ ValuesSatisfyModel) =>
        \A v \in Customers(CurrentInstance.n_vertices) : Occurrences(routes, v) = 1

\* The extraction has ended with two routes on a three-vertex instance.
C1_Witness ==
    /\ pc = "store"
    /\ ValuesSatisfyModel
    /\ CurrentInstance.n_vertices >= 3
    /\ Len(routes) = 2

\* C2: every route in the routes list starts at vertex 0, ends at vertex 0 and
\* has no vertex 0 in between.
C2_DepotEnds ==
    \A r \in 1..Len(routes) :
        /\ Len(routes[r]) >= 3
        /\ routes[r][1] = 0
        /\ routes[r][Len(routes[r])] = 0
        /\ \A k \in 2..(Len(routes[r]) - 1) : routes[r][k] # 0

\* A route with two customers has been appended.
C2_Witness ==
    \E r \in 1..Len(routes) : Len(routes[r]) = 4

\* C3: the while loop of the reconstruction makes at most n iterations for a
\* route, whatever the arc values.
C3_LoopBounded ==
    pc = "walk" => iters <= CurrentInstance.n_vertices

\* C4: on an assignment that satisfies the model, the demands of the customers
\* of each extracted route sum to at most vehicle_capacity.
C4_Capacity ==
    (pc = "store" /\ ValuesSatisfyModel) =>
        \A r \in 1..Len(routes) :
            RouteDemand(CurrentInstance, routes[r]) <= CurrentInstance.vehicle_capacity

\* A route with two customers fills the vehicle.
C4_Witness ==
    /\ pc = "store"
    /\ ValuesSatisfyModel
    /\ \E r \in 1..Len(routes) :
          /\ Len(routes[r]) = 4
          /\ RouteDemand(CurrentInstance, routes[r]) = CurrentInstance.vehicle_capacity

\* C5: in the stored solution every schedule value, the depot stops included,
\* lies within the time window of its vertex.
C5_ScheduleInWindow ==
    ctx_solution # <<>> =>
        \A p \in Stops(StoredSolution.routes) :
            LET v == StoredSolution.routes[p[1]][p[2]]
                at == StoredSolution.schedules[p[1]][p[2]]
            IN Earliest(CurrentInstance, v) <= at /\ at <= Latest(CurrentInstance, v)

\* C6: in the stored solution each stop is reached no earlier than the stop
\* before it plus its service time plus the travel cost, the return to the
\* depot included.
C6_ScheduleOrder ==
    ctx_solution # <<>> =>
        \A p \in Stops(StoredSolution.routes) :
            LET r == StoredSolution.routes[p[1]]
                s == StoredSolution.schedules[p[1]]
                k == p[2]
            IN k < Len(r) =>
                  /\ s[k + 1] >= s[k]
                  /\ s[k + 1] >= s[k] + Service(CurrentInstance, r[k])
                                 + Cost(CurrentInstance, r[k], r[k + 1])

\* C7: while arc values that satisfy the depot constraints are being read, the
\* routes list never holds more than n_vehicles routes.
C7_FleetSize ==
    (pc \in {"outer", "walk", "store"} /\ DepotFlow(CurrentInstance, x)) =>
        Len(routes) <= CurrentInstance.n_vehicles

\* Every vehicle of a two-vehicle fleet has a route.
C7_Witness ==
    /\ pc = "store"
    /\ DepotFlow(CurrentInstance, x)
    /\ CurrentInstance.n_vehicles = 2
    /\ Len(routes) = 2

\* C8: a solve that ends on the arc values and arrival times the stored
\* solution was extracted from stores the same routes and the same schedules.
C8_Deterministic ==
    [][(pc = "store" /\ ctx_solution # <<>> /\ extracted_from = <<x, t>>) =>
          /\ ctx_solution'[1].routes = ctx_solution[1].routes
          /\ ctx_solution'[1].schedules = ctx_solution[1].schedules]_vars

\* A second extraction has ended on the assignment of the first.
C8_Witness ==
    /\ pc = "store"
    /\ ctx_solution # <<>>
    /\ extracted_from = <<x, t>>
    /\ Len(routes) >= 1

\* C9: a solve whose solver status is not a success returns with that status,
\* after one solver invocation, without starting the extraction and with the
\* stored solution untouched.
C9_FailureSurfaced ==
    [][(pc = "idle" /\ solver_calls' = 1 /\ status' \notin Success) =>
          /\ pc' = "idle"
          /\ result' = "no_feasible"
          /\ routes' = <<>>
          /\ ctx_solution' = ctx_solution]_vars

\* A solve has failed while a solution of an earlier solve is stored.
C9_Witness ==
    /\ pc = "idle"
    /\ result = "no_feasible"
    /\ solver_calls = 1
    /\ status \in Failure
    /\ ctx_solution # <<>>

\* C10: the time limit handed to the solver is the time_limit of the request.
C10_TimeLimitHanded ==
    solver_calls = 1 => solver_limit = time_limit

\* C11: a request on a well-formed instance within the size ceilings is never
\* refused over its time limit: the solver is called, and the time limit the
\* call goes on with lies in [1, MAX_SOLVE_TIME].
C11_TimeLimitClamped ==
    (/\ pc = "idle"
     /\ result \notin {"none", "no_instance", "invalid_instance"}
     /\ SizeErrors(EstimateComplexity(CurrentInstance)) = {}) =>
        /\ solver_calls = 1
        /\ 1 <= time_limit /\ time_limit <= MAX_SOLVE_TIME

WellFormed(inst) ==
    LET n == inst.n_vertices IN
    /\ Len(inst.coordinates) = n
    /\ Len(inst.time_windows) = n
    /\ Len(inst.service_times) = n
    /\ Len(inst.demands) = n
    /\ Len(inst.cost_matrix) = n
    /\ \A i \in 1..Len(inst.cost_matrix) : Len(inst.cost_matrix[i]) = n
    /\ \A i \in 1..Len(inst.time_windows) :
          /\ Len(inst.time_windows[i]) = 2
          /\ inst.time_windows[i][1] <= inst.time_windows[i][2]

\* C13: the solver (the model builder with it) is called on well-formed
\* instances only.
C13_BuilderOnWellFormed ==
    solver_calls = 1 => WellFormed(CurrentInstance)

\* sum(instance['demands'][1:])
TotalDemand(inst) == SumSeq(Tail(inst.demands))

RECURSIVE EarliestArrival(_, _, _)
EarliestArrival(inst, r, k) ==
    IF k = 1 THEN Earliest(inst, r[1])
    ELSE MaxOf({Earliest(inst, r[k]),
                EarliestArrival(inst, r, k - 1) + Service(inst, r[k - 1])
                    + Cost(inst, r[k - 1], r[k])})

\* Some customer of the visiting order r cannot be reached before its window
\* closes.
MissesWindow(inst, r) ==
    \E k \in 2..Len(r) : EarliestArrival(inst, r, k) > Latest(inst, r[k])

MinCost(inst) == MinOf({Objective(inst, a[1]) : a \in FeasibleTable[inst]})

\* The closed tours through the depot and every customer, and the cost of a
\* cheapest one.
Tours(inst) ==
    { <<0>> \o [k \in 1..(inst.n_vertices - 1) |-> f[k]] \o <<0>> :
        f \in Permutations(Customers(inst.n_vertices)) }
TspOptimum(inst) == MinOf({RouteCost(inst, r) : r \in Tours(inst)})

\* C16: on an instance with one depot and three customers, one vehicle of
\* capacity 10, demands 3 and wide windows, the extraction from a minimum-cost
\* assignment of the model ends with one route, that route is a closed tour
\* through all three customers, and its cost and the objective value are the
\* cost of a cheapest tour.
C16_SingleTourOptimum ==
    (/\ pc = "store"
     /\ CurrentInstance \in TourInstances
     /\ ValuesSatisfyModel
     /\ total_cost = MinCost(CurrentInstance)) =>
        /\ Len(routes) = 1
        /\ routes[1] \in Tours(CurrentInstance)
        /\ RouteCost(CurrentInstance, routes[1]) = TspOptimum(CurrentInstance)
        /\ total_cost = TspOptimum(CurrentInstance)

\* The extraction from a minimum-cost assignment has ended on an instance
\* that also has dearer tours.
C16_Witness ==
    /\ pc = "store"
    /\ CurrentInstance \in TourInstances
    /\ ValuesSatisfyModel
    /\ total_cost = MinCost(CurrentInstance)
    /\ Len(routes) = 1
    /\ Cardinality({a[1] : a \in FeasibleTable[CurrentInstance]})
          = Cardinality(Tours(CurrentInstance))
    /\ \E r \in Tours(CurrentInstance) :
          RouteCost(CurrentInstance, r) > TspOptimum(CurrentInstance)

\* C17: for the instance handed to the builder, the constraint counts listed
\* by family equal the numbers of constraints the builder adds in each family,
\* and the estimated total equals the number of constraints of the model.
C17_ConstraintCounts ==
    solver_calls = 1 =>
        LET n == CurrentInstance.n_vertices
            est == ModelStatistics(n)
            built == BuiltConstraints(n)
        IN /\ est.n_visit_constraints = built.visit
           /\ est.n_depot_constraints = built.depot
           /\ est.n_time_constraints = built.time
           /\ est.n_mtz_constraints = built.mtz
           /\ est.n_load_constraints = built.load
           /\ EstimateComplexity(CurrentInstance).n_constraints
                 = built.visit + built.depot + built.time + built.mtz + built.load

\* The estimated variable counts are the numbers of variables the builder
\* creates for the instance handed to it.
VariableCountsAgree ==
    LET n == CurrentInstance.n_vertices
        est == EstimateComplexity(CurrentInstance)
        built == BuiltVariables(n)
    IN /\ est.n_binary_vars = built.arc
       /\ est.n_continuous_vars = built.time + built.position + built.load
       /\ est.n_total_vars = built.arc + built.time + built.position + built.load

\* C18 as stated: the estimated variable counts equal the numbers of variables
\* created, position variables being created for the customers only.
C18_PositionsOfCustomersOnly ==
    solver_calls = 1 =>
        /\ VariableCountsAgree
        /\ PositionKeys(CurrentInstance.n_vertices)
              = Customers(CurrentInstance.n_vertices)

\* C18 as amended: the estimated variable counts equal the numbers of
\* variables created, position variables being created for every vertex, the
\* depot included.
C18_VariableCounts ==
    solver_calls = 1 =>
        /\ VariableCountsAgree
        /\ PositionKeys(CurrentInstance.n_vertices)
              = Vertices(CurrentInstance.n_vertices)

\* The builder has run on a three-vertex instance.
C18_Witness ==
    /\ solver_calls = 1
    /\ CurrentInstance.n_vertices = 3
    /\ status = "Optimal"

\* What a session reads from its context: the instance and the solution of
\* the context registered for its user, nothing when none is registered.
ReadBy(th) ==
    IF GetCurrentUser(th) \in DOMAIN contexts
    THEN <<heap[contexts[GetCurrentUser(th)]].instance,
           heap[contexts[GetCurrentUser(th)]].solution>>
    ELSE << <<>>, <<>> >>

\* C19: no step of an operation of one chat session changes the instance or
\* the solution the other session reads from its context.
C19_SessionsIsolated ==
    [][\A a \in Threads :
          tpc'[a] # tpc[a] =>
              \A b \in Threads \ {a} : ReadBy(b)' = ReadBy(b)]_vars

\* C20: the registry holds one context per user, created for that user, and
\* the context a get_context call returned for a user is the registered one
\* until clear_context for that user or cleanup_all runs, so that two such
\* calls return the same object.
C20_OneContextPerUser ==
    /\ \A u \in DOMAIN contexts :
          /\ contexts[u] \in 1..Len(heap)
          /\ heap[contexts[u]].user_id = u
    /\ \A th \in Threads :
          got[th] # <<>> =>
              /\ got[th][1] \in DOMAIN contexts
              /\ contexts[got[th][1]] = got[th][2]
    /\ \A a \in Threads, b \in Threads :
          (got[a] # <<>> /\ got[b] # <<>> /\ got[a][1] = got[b][1]) =>
              got[a][2] = got[b][2]

\* Two threads hold the context of the same user, the second context created
\* for that user after a clear_context.
C20_Witness ==
    /\ got[1] # <<>> /\ got[2] # <<>>
    /\ got[1][1] = got[2][1]
    /\ got[1][2] = 2
    /\ got[2][2] = 2
    /\ heap[1].user_id = got[1][1]

\* The selected arcs among the customers contain a directed cycle: a nonempty
\* set of customers each of which has a selected arc to another of the set.
CustomerCycle(n, xs) ==
    \E S \in SUBSET Customers(n) :
        /\ S # {}
        /\ \A v \in S : \E w \in S \ {v} : Selected(xs[<<v, w>>])

\* C21: whatever positions u in [0, n] satisfy the mtz constraints together
\* with the arc values, the selected arcs among the customers contain no
\* directed cycle.
C21_NoCustomerCycle ==
    (lp # <<>> /\ lp.x # <<>>) =>
        \A us \in PositionAssignments(lp.instance) :
            SubtourElimination(lp.instance, lp.x, us) =>
                ~CustomerCycle(lp.instance.n_vertices, lp.x)

\* Arc values with a path over all three customers that some positions satisfy.
C21_Witness ==
    /\ lp # <<>> /\ lp.x # <<>>
    /\ lp.instance.n_vertices = 4
    /\ lp.x[<<1, 2>>] = 1 /\ lp.x[<<2, 3>>] = 1
    /\ \E us \in PositionAssignments(lp.instance) :
          SubtourElimination(lp.instance, lp.x, us)

\* C22: for an arc not selected, time_i_j with the M computed holds of all
\* arrival times inside the two time windows; for a selected arc it is
\* t[j] >= t[i] + service(i) + cost(i, j).
C22_BigMVacuous ==
    (lp # <<>> /\ lp.x # <<>>) =>
        \A a \in TimeNames(lp.instance.n_vertices) :
            \A ti \in Earliest(lp.instance, a[1])..Latest(lp.instance, a[1]),
               tk \in Earliest(lp.instance, a[2])..Latest(lp.instance, a[2]) :
                LET ts == [v \in {a[1], a[2]} |-> IF v = a[1] THEN ti ELSE tk]
                    holds == TimeConstraint(lp.instance, lp.M, a, lp.x, ts)
                IN IF lp.x[a] = 0 THEN holds
                   ELSE holds <=> (tk >= ti + Service(lp.instance, a[1])
                                         + Cost(lp.instance, a[1], a[2]))

\* The routes rs are in increasing order of their first customer, and every
\* stop after a customer is the lowest-index vertex the customer has a
\* selected arc to.
LowestIndexFirst(n, xs, rs) ==
    /\ \A a \in 1..Len(rs), b \in 1..Len(rs) : a < b => rs[a][2] < rs[b][2]
    /\ \A r \in 1..Len(rs) : \A k \in 2..(Len(rs[r]) - 1) :
          /\ Selected(xs[<<rs[r][k], rs[r][k + 1]>>])
          /\ \A v \in 0..(rs[r][k + 1] - 1) :
                v # rs[r][k] => ~Selected(xs[<<rs[r][k], v>>])

\* C23: the routes are found in increasing order of their first customer and
\* each hop follows the selected arc to the lowest-index vertex, during the
\* extraction and in the solution stored.
C23_LowestIndexFirst ==
    /\ pc = "walk" =>
          LowestIndexFirst(CurrentInstance.n_vertices, x, Append(routes, route))
    /\ pc \in {"outer", "store"} =>
          LowestIndexFirst(CurrentInstance.n_vertices, x, routes)
    /\ (pc = "idle" /\ result = "report") =>
          LowestIndexFirst(CurrentInstance.n_vertices, extracted_from[1],
                           StoredSolution.routes)

\* Two routes stored, the first left customer 1 by the arc to the depot though
\* the arc from 1 to 2 was selected as well.
C23_Witness ==
    /\ pc = "idle" /\ result = "report"
    /\ StoredSolution.routes = << <<0, 1, 0>>, <<0, 2, 0>> >>
    /\ Selected(extracted_from[1][<<1, 0>>])
    /\ Selected(extracted_from[1][<<1, 2>>])

\* The thread th returns from create_vrp_instance in this step.
CreateReturns(th) ==
    /\ tpc[th] = "body" /\ tpc'[th] = "idle"
    /\ tcall[th].op = "create_vrp_instance"

ValidCustomers(n_customers) ==
    MIN_CUSTOMERS <= n_customers /\ n_customers <= MAX_CUSTOMERS

\* C24: a create_vrp_instance call with a seed below 0 and a valid number of
\* customers stores the instance generated with the absolute value of the seed.
C24_AbsoluteSeed ==
    [][\A th \in Threads :
          (/\ CreateReturns(th)
           /\ tcall[th].args.seed < 0
           /\ ValidCustomers(tcall[th].args.n_customers)) =>
              /\ answer'[th] = <<"instance">>
              /\ heap'[tctx[th][1]].instance =
                     <<GenerateVrpInstance(tcall[th].args.n_customers,
                                           AbsSeed(tcall[th].args.seed))>>]_vars

\* C25: a create_vrp_instance call with a number of customers below 1 or above
\* 100 returns the error and changes no context.
C25_InvalidCountRefused ==
    [][\A th \in Threads :
          (/\ CreateReturns(th)
           /\ ~ValidCustomers(tcall[th].args.n_customers)) =>
              /\ answer'[th] = <<"invalid_parameters">>
              /\ heap' = heap]_vars

\* C26: in every context, a solution stored was computed for the instance
\* stored.
C26_SolutionOfCurrentInstance ==
    \A o \in 1..Len(heap) :
        heap[o].solution # <<>> => heap[o].solution_of = heap[o].instance

\* C27: a solve_vrptw call that returns the invalid-instance or the
\* cannot-solve message leaves the instance, the solution and the history of
\* the context as they were.
C27_RejectionLeavesContext ==
    [][(pc = "idle" /\ result' \in {"invalid_instance", "cannot_solve"}) =>
          /\ ctx_instance' = ctx_instance
          /\ ctx_solution' = ctx_solution
          /\ ctx_history' = ctx_history]_vars

\* C28: on arc values that satisfy the model, every iteration of the while
\* loop makes a hop, to the depot or to a customer not yet visited, and a
\* route holds at most n - 1 customers, so both loops end.
C28_ExtractionEnds ==
    pc = "walk" =>
        LET n == CurrentInstance.n_vertices
            next_v == NextVertex(x, n, current)
        IN /\ next_v # -1
           /\ next_v = 0 \/ next_v \notin visited
           /\ iters = Len(route) - 2
           /\ Len(route) - 1 <= n - 1

\* The walk of a route over all three customers is about to return to the
\* depot.
C28_Witness ==
    /\ pc = "walk"
    /\ CurrentInstance.n_vertices = 4
    /\ Len(route) = 4
    /\ iters = 2
    /\ NextVertex(x, 4, current) = 0

\* The places of the routes rs where the arc a is travelled.
Travels(rs, a) ==
    {p \in Stops(rs) : /\ p[2] < Len(rs[p[1]])
                       /\ rs[p[1]][p[2]] = a[1]
                       /\ rs[p[1]][p[2] + 1] = a[2]}

\* C29: in a stored solution every selected arc is travelled once by one
\* route and no other arc is travelled, and the route costs add up to the
\* total cost.
C29_RouteCostsAddUp ==
    (pc = "idle" /\ result = "report") =>
        /\ \A a \in Arcs(CurrentInstance.n_vertices) :
              Cardinality(Travels(StoredSolution.routes, a)) = extracted_from[1][a]
        /\ SumSeq([r \in 1..Len(StoredSolution.routes) |->
                      RouteCost(CurrentInstance, StoredSolution.routes[r])])
           = StoredSolution.total_cost

\* A solution of two routes is stored.
C29_Witness ==
    /\ pc = "idle" /\ result = "report"
    /\ Len(StoredSolution.routes) = 2
    /\ StoredSolution.total_cost > 0

\* C30: load_vrp_instance and solve_vrptw_from_file return what load_instance
\* returned, without validating or solving, exactly when the file named does
\* not exist in the workspace.
C30_FailedOnlyWhenMissing ==
    [][\A th \in Threads :
          (/\ tpc[th] = "body" /\ tpc'[th] = "idle"
           /\ tcall[th].op \in {"load_vrp_instance", "solve_vrptw_from_file"}) =>
              LET c == heap[tctx[th][1]] IN
              (answer'[th] = LoadMessage(c, tcall[th].args.filename))
                  <=> (FileAt(c.workspace, tcall[th].args.filename) = <<>>)]_vars
====
